---- MODULE Spec2Model ----
(***************************************************************************)
(* Cooking plan backend: recipes, meal plans, shopping-list strategies and *)
(* the CookingPlanApplication facade (src/app.js), together with the       *)
(* earlier copy of the domain and strategy classes (src/unnamed/part_002). *)
(*                                                                         *)
(* JavaScript strings that the code inspects character by character        *)
(* (ingredient names and units) are sequences of one-character strings;    *)
(* identifiers and tokens that are only compared with === are TLA+         *)
(* strings.  Numbers given to Recipe.rate are exact fractions [n, d].      *)
(***************************************************************************)
EXTENDS Integers, Sequences, FiniteSets, TLC

VARIABLES recipes, mealPlans, users, currentUserId, ids, call

vars == <<recipes, mealPlans, users, currentUserId, ids, call>>

-----------------------------------------------------------------------------
(* Bounds of the model *)

MaxEntries == 3

MaxRatings == 3

MaxUsers == 3

MaxPlans == 2

MaxSessionEntries == 3

MaxRecipes == 4

-----------------------------------------------------------------------------
(* String primitives: String.prototype.toLowerCase / includes *)

UpperCase == <<"A", "B", "C", "D", "E", "F", "G", "H", "I", "J", "K", "L", "M",
               "N", "O", "P", "Q", "R", "S", "T", "U", "V", "W", "X", "Y", "Z">>

LowerCase == <<"a", "b", "c", "d", "e", "f", "g", "h", "i", "j", "k", "l", "m",
               "n", "o", "p", "q", "r", "s", "t", "u", "v", "w", "x", "y", "z">>

(* the lower-case form of each upper-case letter *)
lowerOf ==
    [c \in {UpperCase[i] : i \in 1..Len(UpperCase)} |->
        LowerCase[CHOOSE i \in 1..Len(UpperCase) : UpperCase[i] = c]]

lowerChar(c) == IF c \in DOMAIN lowerOf THEN lowerOf[c] ELSE c

toLowerCase(s) == [i \in 1..Len(s) |-> lowerChar(s[i])]

includes(s, t) ==
    \E i \in 0..(Len(s) - Len(t)) : SubSeq(s, i + 1, i + Len(t)) = t

-----------------------------------------------------------------------------
(* Text used by the program and by the inputs *)

s_meat == <<"m", "e", "a", "t">>
s_chicken == <<"c", "h", "i", "c", "k", "e", "n">>
s_beef == <<"b", "e", "e", "f">>
s_pork == <<"p", "o", "r", "k">>
s_fish == <<"f", "i", "s", "h">>
s_egg == <<"e", "g", "g">>
s_milk == <<"m", "i", "l", "k">>
s_cheese == <<"c", "h", "e", "e", "s", "e">>
s_butter == <<"b", "u", "t", "t", "e", "r">>
s_honey == <<"h", "o", "n", "e", "y">>
s_wheat == <<"w", "h", "e", "a", "t">>
s_flour == <<"f", "l", "o", "u", "r">>
s_bread == <<"b", "r", "e", "a", "d">>
s_pasta == <<"p", "a", "s", "t", "a">>
s_barley == <<"b", "a", "r", "l", "e", "y">>
s_rye == <<"r", "y", "e">>

nonVegan == <<s_meat, s_chicken, s_beef, s_pork, s_fish, s_egg, s_milk,
              s_cheese, s_butter, s_honey>>

gluten == <<s_wheat, s_flour, s_bread, s_pasta, s_barley, s_rye>>

ChickenBreast == <<"C", "h", "i", "c", "k", "e", "n", " ", "B", "r", "e", "a", "s", "t">>
OliveOil == <<"O", "l", "i", "v", "e", " ", "O", "i", "l">>
Lemon == <<"L", "e", "m", "o", "n">>
Garlic == <<"G", "a", "r", "l", "i", "c">>
Pasta == <<"P", "a", "s", "t", "a">>
Eggs == <<"E", "g", "g", "s">>
Parmesan == <<"P", "a", "r", "m", "e", "s", "a", "n">>
Bacon == <<"B", "a", "c", "o", "n">>
Broccoli == <<"B", "r", "o", "c", "c", "o", "l", "i">>
Carrot == <<"C", "a", "r", "r", "o", "t">>
BellPepper == <<"B", "e", "l", "l", " ", "P", "e", "p", "p", "e", "r">>
SoySauce == <<"S", "o", "y", " ", "S", "a", "u", "c", "e">>
Soy == <<"S", "o", "y">>
SoyMilk == <<"S", "o", "y", "-", "m", "i", "l", "k">>
RYE == <<"R", "Y", "E">>

u_none == <<>>
u_g == <<"g">>
u_tbsp == <<"t", "b", "s", "p">>
u_cloves == <<"c", "l", "o", "v", "e", "s">>
u_cup == <<"c", "u", "p">>
u_milk_cup == <<"m", "i", "l", "k", "-", "c", "u", "p">>

(* The JavaScript value undefined, as an argument that was not passed. *)
undefined == <<"undefined">>

-----------------------------------------------------------------------------
(* 1. Domain classes *)

Ingredient(name, amount, unit) ==
    [name |-> name, amount |-> amount,
     unit |-> IF unit = undefined THEN u_none ELSE unit]

(* `${this.amount}`: the decimal digits of an integer amount *)
Digits == <<"0", "1", "2", "3", "4", "5", "6", "7", "8", "9">>

RECURSIVE numberToString(_)
numberToString(n) ==
    IF n < 0 THEN <<"-">> \o numberToString(0 - n)
    ELSE IF n < 10 THEN <<Digits[n + 1]>>
    ELSE numberToString(n \div 10) \o <<Digits[(n % 10) + 1]>>

(* String.prototype.trim: white space is removed at both ends only *)
RECURSIVE trimStart(_)
trimStart(s) ==
    IF s # <<>> /\ Head(s) = " " THEN trimStart(Tail(s)) ELSE s

RECURSIVE trimEnd(_)
trimEnd(s) ==
    IF s # <<>> /\ s[Len(s)] = " " THEN trimEnd(SubSeq(s, 1, Len(s) - 1)) ELSE s

trim(s) == trimEnd(trimStart(s))

(* Ingredient.toString: `${this.amount} ${this.unit} ${this.name}`.trim() *)
toString(ing) ==
    trim(numberToString(ing.amount) \o <<" ">> \o ing.unit \o <<" ">> \o ing.name)

(* A value of Recipe.ingredients: an array, or null. *)
Array(items) == [isNull |-> FALSE, items |-> items]

null == [isNull |-> TRUE, items |-> <<>>]

(* Numbers handed to rate(): exact fractions with a positive denominator. *)
RECURSIVE gcd(_, _)
gcd(a, b) == IF b = 0 THEN a ELSE gcd(b, a % b)

Num(n, d) == LET g == gcd(n, d) IN
             IF g = 0 THEN [n |-> 0, d |-> 1] ELSE [n |-> n \div g, d |-> d \div g]

Zero == Num(0, 1)

numAdd(a, b) == Num(a.n * b.d + b.n * a.d, a.d * b.d)

numDiv(a, k) == Num(a.n, a.d * k)

numGe(a, k) == a.n >= k * a.d

numLe(a, k) == a.n <= k * a.d

RECURSIVE reduceSum(_, _)
reduceSum(acc, xs) ==
    IF xs = <<>> THEN acc ELSE reduceSum(numAdd(acc, Head(xs)), Tail(xs))

Recipe(title, ingredients, tags, dietaryFlags) ==
    [title |-> title, ingredients |-> ingredients, tags |-> tags,
     dietaryFlags |-> dietaryFlags, rating |-> Zero, ratings |-> <<>>]

(* Recipe.rate of src/app.js: the recipe afterwards and what the call returned *)
rateOffByOne(recipe, rating) ==
    IF numGe(rating, 0) /\ numLe(rating, 5)
    THEN LET rs == Append(recipe.ratings, rating) IN
         [recipe |-> [recipe EXCEPT !.ratings = rs,
                                    !.rating = numDiv(reduceSum(Zero, rs), Len(rs))],
          ret |-> "true"]
    ELSE [recipe |-> recipe, ret |-> "false"]

rate(recipe, rating) ==
    IF numGe(rating, 1) /\ numLe(rating, 5)
    THEN LET rs == Append(recipe.ratings, rating) IN
         [recipe |-> [recipe EXCEPT !.ratings = rs,
                                    !.rating = numDiv(reduceSum(Zero, rs), Len(rs))],
          ret |-> "true"]
    ELSE [recipe |-> recipe, ret |-> "false"]

(* Recipe.rate of src/unnamed/part_002: after the push, this.rating.reduce  *)
(* is looked up on a number and the call throws a TypeError.                *)
rate_part002(recipe, rating) ==
    IF numGe(rating, 1) /\ numLe(rating, 5)
    THEN [recipe |-> [recipe EXCEPT !.ratings = Append(recipe.ratings, rating)],
          ret |-> "TypeError"]
    ELSE [recipe |-> recipe, ret |-> "false"]

PlanEntry(day, recipeId) == [day |-> day, recipeId |-> recipeId]

MealPlan(userId, name, entries) ==
    [userId |-> userId, name |-> name, entries |-> entries, sharedWith |-> <<>>]

(* an addEntry that puts the new entry first *)
addEntryFirst(mealPlan, entry) == [mealPlan EXCEPT !.entries = <<entry>> \o @]

addEntry(mealPlan, entry) == [mealPlan EXCEPT !.entries = Append(@, entry)]

(* id => id: the empty string is the falsy identifier *)
truthyId(id) == id # ""

RECURSIVE filterIds(_)
filterIds(s) ==
    IF s = <<>> THEN <<>>
    ELSE IF truthyId(Head(s)) THEN <<Head(s)>> \o filterIds(Tail(s))
    ELSE filterIds(Tail(s))

getRecipeIds(mealPlan) ==
    filterIds([i \in 1..Len(mealPlan.entries) |-> mealPlan.entries[i].recipeId])

User(id, name, email) == [id |-> id, name |-> name, email |-> email]

-----------------------------------------------------------------------------
(* 2. MemoryRepository: recipes, mealPlans and users are maps from id to   *)
(* object; ids counts the identifiers generated so far for each kind.      *)

newId(prefix, n) == prefix \o "-" \o ToString(n)

EmptyMap == [k \in {} |-> k]

hasRecipe(repo, id) == id \in DOMAIN repo

deleteRecipe(repo, id) == [k \in (DOMAIN repo) \ {id} |-> repo[k]]

put(map, id, obj) == [k \in (DOMAIN map) \cup {id} |-> IF k = id THEN obj ELSE map[k]]

(* users is kept in the Map's insertion order *)
hasUser(us, id) == \E i \in 1..Len(us) : us[i].id = id

getUser(us, id) == us[CHOOSE i \in 1..Len(us) : us[i].id = id]

(* Array.from(users.values()).find(...): the first match, if any *)
hasUserByEmail(us, email) == \E i \in 1..Len(us) : us[i].email = email

getUserByEmail(us, email) ==
    us[CHOOSE i \in 1..Len(us) :
          /\ us[i].email = email
          /\ \A j \in 1..(i - 1) : us[j].email # email]

-----------------------------------------------------------------------------
(* 3. Shopping list strategies *)

(* `${ing.name}-${ing.unit}` *)
ingredientKey(ing) == ing.name \o <<"-">> \o ing.unit

(* '${ing.name}-${ing.unit}' in single quotes: the same literal text for   *)
(* every ingredient.                                                       *)
ingredientKey_part002(ing) ==
    <<"$", "{", "i", "n", "g", ".", "n", "a", "m", "e", "}", "-",
      "$", "{", "i", "n", "g", ".", "u", "n", "i", "t", "}">>

mapHas(map, key) == \E i \in 1..Len(map) : map[i].key = key

(* One step of the inner forEach: accumulate on the existing record of the *)
(* key, or insert a fresh record at the end of the map.                    *)
mergeIngredient(map, key, ing) ==
    IF mapHas(map, key)
    THEN [i \in 1..Len(map) |->
            IF map[i].key = key
            THEN [map[i] EXCEPT !.amount = @ + ing.amount]
            ELSE map[i]]
    ELSE Append(map, [key |-> key, name |-> ing.name, amount |-> ing.amount,
                      unit |-> ing.unit])

RECURSIVE forEachIngredient(_, _)
forEachIngredient(map, ings) ==
    IF ings = <<>> THEN map
    ELSE forEachIngredient(
             mergeIngredient(map, ingredientKey(Head(ings)), Head(ings)),
             Tail(ings))

RECURSIVE forEachIngredient_part002(_, _)
forEachIngredient_part002(map, ings) ==
    IF ings = <<>> THEN map
    ELSE forEachIngredient_part002(
             mergeIngredient(map, ingredientKey_part002(Head(ings)), Head(ings)),
             Tail(ings))

(* recipe && recipe.ingredients *)
resolves(repo, recipeId) ==
    hasRecipe(repo, recipeId) /\ ~repo[recipeId].ingredients.isNull

RECURSIVE forEachRecipeIdStopAtMissing(_, _, _)
forEachRecipeIdStopAtMissing(map, recipeIds, repo) ==
    IF recipeIds = <<>> THEN map
    ELSE IF resolves(repo, Head(recipeIds))
    THEN forEachRecipeIdStopAtMissing(
             forEachIngredient(map, repo[Head(recipeIds)].ingredients.items),
             Tail(recipeIds), repo)
    ELSE map

RECURSIVE forEachRecipeId(_, _, _)
forEachRecipeId(map, recipeIds, repo) ==
    IF recipeIds = <<>> THEN map
    ELSE forEachRecipeId(
             IF resolves(repo, Head(recipeIds))
             THEN forEachIngredient(map, repo[Head(recipeIds)].ingredients.items)
             ELSE map,
             Tail(recipeIds), repo)

RECURSIVE forEachRecipeId_part002(_, _, _)
forEachRecipeId_part002(map, recipeIds, repo) ==
    IF recipeIds = <<>> THEN map
    ELSE forEachRecipeId_part002(
             IF resolves(repo, Head(recipeIds))
             THEN forEachIngredient_part002(map, repo[Head(recipeIds)].ingredients.items)
             ELSE map,
             Tail(recipeIds), repo)

mapValues(map) ==
    [i \in 1..Len(map) |-> Ingredient(map[i].name, map[i].amount, map[i].unit)]

BasicGenerate(mealPlan, repo) ==
    mapValues(forEachRecipeId(<<>>, getRecipeIds(mealPlan), repo))

BasicGenerate_part002(mealPlan, repo) ==
    mapValues(forEachRecipeId_part002(<<>>, getRecipeIds(mealPlan), repo))

(* terms.some(item => name.toLowerCase().includes(item)) *)
some(terms, name) ==
    LET lower == toLowerCase(name)
    IN \E i \in 1..Len(terms) : includes(lower, terms[i])

someCaseSensitive(terms, name) ==
    \E i \in 1..Len(terms) : includes(name, terms[i])

(* allIngredients.filter(ingredient => !terms.some(...)) *)
RECURSIVE filterOut(_, _)
filterOut(allIngredients, terms) ==
    IF allIngredients = <<>> THEN <<>>
    ELSE IF ~some(terms, Head(allIngredients).name)
    THEN <<Head(allIngredients)>> \o filterOut(Tail(allIngredients), terms)
    ELSE filterOut(Tail(allIngredients), terms)

RECURSIVE filterOutCaseSensitive(_, _)
filterOutCaseSensitive(allIngredients, terms) ==
    IF allIngredients = <<>> THEN <<>>
    ELSE IF ~someCaseSensitive(terms, Head(allIngredients).name)
    THEN <<Head(allIngredients)>> \o filterOutCaseSensitive(Tail(allIngredients), terms)
    ELSE filterOutCaseSensitive(Tail(allIngredients), terms)

VeganGenerateCaseSensitive(mealPlan, repo) ==
    filterOutCaseSensitive(BasicGenerate(mealPlan, repo), nonVegan)

(* a vegan strategy that believes the recipes' metadata: nothing is       *)
(* removed once a recipe of the plan is flagged or tagged vegan            *)
VeganGenerateTrustFlags(mealPlan, repo) ==
    IF \E i \in 1..Len(mealPlan.entries) :
          /\ hasRecipe(repo, mealPlan.entries[i].recipeId)
          /\ "vegan" \in repo[mealPlan.entries[i].recipeId].dietaryFlags
                             \cup repo[mealPlan.entries[i].recipeId].tags
    THEN BasicGenerate(mealPlan, repo)
    ELSE filterOut(BasicGenerate(mealPlan, repo), nonVegan)

VeganGenerate(mealPlan, repo) ==
    filterOut(BasicGenerate(mealPlan, repo), nonVegan)

GlutenFreeGenerateVeganList(mealPlan, repo) ==
    filterOut(BasicGenerate(mealPlan, repo), nonVegan \o gluten)

GlutenFreeGenerate(mealPlan, repo) ==
    filterOut(BasicGenerate(mealPlan, repo), gluten)

VeganGenerate_part002(mealPlan, repo) ==
    filterOut(BasicGenerate_part002(mealPlan, repo), nonVegan)

GlutenFreeGenerate_part002(mealPlan, repo) ==
    filterOut(BasicGenerate_part002(mealPlan, repo), gluten)

(* ShoppingListStrategyFactory.createStrategy: the class instantiated *)
createStrategyNoDefault(type) ==
    CASE type = "basic" -> "BasicShoppingListStrategy"
      [] type = "vegan" -> "VeganShoppingListStrategy"
      [] type = "glutenFree" -> "GlutenFreeShoppingListStrategy"
      [] OTHER -> "ShoppingListStrategy"

createStrategy(type) ==
    CASE type = "basic" -> "BasicShoppingListStrategy"
      [] type = "vegan" -> "VeganShoppingListStrategy"
      [] type = "glutenFree" -> "GlutenFreeShoppingListStrategy"
      [] OTHER -> "BasicShoppingListStrategy"

(* strategy.generate(mealPlan, repo), dispatched on the strategy's class;  *)
(* the abstract ShoppingListStrategy.generate throws.                      *)
generate(strategy, mealPlan, repo) ==
    CASE strategy = "BasicShoppingListStrategy" ->
            [ret |-> "ok", list |-> BasicGenerate(mealPlan, repo)]
      [] strategy = "VeganShoppingListStrategy" ->
            [ret |-> "ok", list |-> VeganGenerate(mealPlan, repo)]
      [] strategy = "GlutenFreeShoppingListStrategy" ->
            [ret |-> "ok", list |-> GlutenFreeGenerate(mealPlan, repo)]
      [] OTHER ->
            [ret |-> "Error: generate method must be implemented", list |-> <<>>]

generate_part002(strategy, mealPlan, repo) ==
    CASE strategy = "BasicShoppingListStrategy" ->
            [ret |-> "ok", list |-> BasicGenerate_part002(mealPlan, repo)]
      [] strategy = "VeganShoppingListStrategy" ->
            [ret |-> "ok", list |-> VeganGenerate_part002(mealPlan, repo)]
      [] strategy = "GlutenFreeShoppingListStrategy" ->
            [ret |-> "ok", list |-> GlutenFreeGenerate_part002(mealPlan, repo)]
      [] OTHER ->
            [ret |-> "Error: generate method must be implemented", list |-> <<>>]

-----------------------------------------------------------------------------
(* 4. CookingPlanApplication *)

(* What the last call was, what it was given and what came back: ret is    *)
(* "true"/"false"/"ok" or the error thrown, list the returned ingredients, *)
(* again whether the call repeats the call before it.                      *)
Call(op, a, b, v, ret, list, again) ==
    [op |-> op, a |-> a, b |-> b, v |-> v, ret |-> ret, list |-> list,
     again |-> again]

NoCall == Call("new", "", "", Zero, "ok", <<>>, FALSE)

(* getCurrentUser() !== null: null only when currentUserId is unset *)
isLoggedIn == currentUserId # ""

(* getCurrentUser() is a User object, so that .id can be read from it *)
currentUserIsObject == currentUserId # "" /\ hasUser(users, currentUserId)

(* initializeSampleData: the three sample recipes *)
VegetableStirFry ==
    Recipe("Vegetable Stir Fry",
           Array(<<Ingredient(Broccoli, 200, u_g), Ingredient(Carrot, 2, u_none),
                   Ingredient(BellPepper, 1, u_none), Ingredient(SoySauce, 3, u_tbsp)>>),
           {"vegetarian", "quick"}, {"vegetarian", "vegan"})

GrilledChicken ==
    Recipe("Grilled Chicken",
           Array(<<Ingredient(ChickenBreast, 2, u_none), Ingredient(OliveOil, 2, u_tbsp),
                   Ingredient(Lemon, 1, u_none), Ingredient(Garlic, 3, u_cloves)>>),
           {"protein", "grilled"}, {"gluten-free"})

PastaCarbonara ==
    Recipe("Pasta Carbonara",
           Array(<<Ingredient(Pasta, 250, u_g), Ingredient(Eggs, 2, u_none),
                   Ingredient(Parmesan, 100, u_g), Ingredient(Bacon, 150, u_g)>>),
           {"italian", "pasta"}, {})

SampleUsers ==
    <<User(newId("user", 1), "Alice", "alice@example.com"),
      User(newId("user", 2), "Bob", "bob@example.com")>>

(* The application after new CookingPlanApplication() *)
Init ==
    /\ users = SampleUsers
    /\ currentUserId = newId("user", 1)
    /\ recipes = (newId("recipe", 1) :> VegetableStirFry)
                 @@ (newId("recipe", 2) :> GrilledChicken)
                 @@ (newId("recipe", 3) :> PastaCarbonara)
    /\ mealPlans = EmptyMap
    /\ ids = [user |-> 2, recipe |-> 3, plan |-> 0]
    /\ call = NoCall

(* the number of ratings in the store, which MaxRatings caps *)
RECURSIVE sumOver(_, _)
sumOver(repo, idSet) ==
    IF idSet = {} THEN 0
    ELSE LET id == CHOOSE x \in idSet : TRUE
         IN Len(repo[id].ratings) + sumOver(repo, idSet \ {id})

totalRatings(repo) == sumOver(repo, DOMAIN repo)

(* rateRecipe(recipeId, rating) *)
RateRecipe(recipeId, rating) ==
    /\ IF ~hasRecipe(recipes, recipeId)
       THEN /\ call' = Call("rateRecipe", recipeId, "", rating,
                            "Error: Recipe not found", <<>>, FALSE)
            /\ recipes' = recipes
       ELSE LET r == rate(recipes[recipeId], rating) IN
            /\ totalRatings(put(recipes, recipeId, r.recipe)) <= MaxRatings
            /\ recipes' = put(recipes, recipeId, r.recipe)
            /\ call' = Call("rateRecipe", recipeId, "", rating, r.ret, <<>>, FALSE)
    /\ UNCHANGED <<mealPlans, users, currentUserId, ids>>

(* getRecipe(recipeId).rate(rating): the stored object rated directly *)
RecipeRate(recipeId, rating) ==
    /\ hasRecipe(recipes, recipeId)
    /\ LET r == rate(recipes[recipeId], rating) IN
       /\ totalRatings(put(recipes, recipeId, r.recipe)) <= MaxRatings
       /\ recipes' = put(recipes, recipeId, r.recipe)
       /\ call' = Call("rate", recipeId, "", rating, r.ret, <<>>, FALSE)
    /\ UNCHANGED <<mealPlans, users, currentUserId, ids>>

(* repository.deleteRecipe(id) *)
DeleteRecipe(id) ==
    /\ recipes' = deleteRecipe(recipes, id)
    /\ call' = Call("deleteRecipe", id, "", Zero,
                    IF hasRecipe(recipes, id) THEN "true" ELSE "false", <<>>, FALSE)
    /\ UNCHANGED <<mealPlans, users, currentUserId, ids>>

hasMealPlan(id) == id \in DOMAIN mealPlans

(* addToMealPlan without the ownership test *)
AddToMealPlanAnyUser(mealPlanId, day, recipeId) ==
    /\ IF ~hasMealPlan(mealPlanId)
       THEN /\ call' = Call("addToMealPlan", mealPlanId, recipeId, Zero,
                            "Error: Meal plan not found", <<>>, FALSE)
            /\ mealPlans' = mealPlans
       ELSE /\ Len(mealPlans[mealPlanId].entries) < MaxEntries
            /\ mealPlans' = put(mealPlans, mealPlanId,
                                addEntry(mealPlans[mealPlanId], PlanEntry(day, recipeId)))
            /\ call' = Call("addToMealPlan", mealPlanId, recipeId, Zero, "ok", <<>>, FALSE)
    /\ UNCHANGED <<recipes, users, currentUserId, ids>>

(* addToMealPlan(mealPlanId, day, recipeId) *)
AddToMealPlan(mealPlanId, day, recipeId) ==
    /\ IF ~hasMealPlan(mealPlanId)
       THEN /\ call' = Call("addToMealPlan", mealPlanId, recipeId, Zero,
                            "Error: Meal plan not found", <<>>, FALSE)
            /\ mealPlans' = mealPlans
       ELSE IF ~currentUserIsObject
       THEN /\ call' = Call("addToMealPlan", mealPlanId, recipeId, Zero,
                            "TypeError", <<>>, FALSE)
            /\ mealPlans' = mealPlans
       ELSE IF mealPlans[mealPlanId].userId # currentUserId
       THEN /\ call' = Call("addToMealPlan", mealPlanId, recipeId, Zero,
                            "Error: Not your meal plan", <<>>, FALSE)
            /\ mealPlans' = mealPlans
       ELSE /\ Len(mealPlans[mealPlanId].entries) < MaxEntries
            /\ mealPlans' = put(mealPlans, mealPlanId,
                                addEntry(mealPlans[mealPlanId], PlanEntry(day, recipeId)))
            /\ call' = Call("addToMealPlan", mealPlanId, recipeId, Zero, "ok", <<>>, FALSE)
    /\ UNCHANGED <<recipes, users, currentUserId, ids>>

(* generateShoppingList with the map entries aliasing the recipes' own     *)
(* Ingredient objects: the totals are accumulated in the store.            *)
GenerateShoppingListAliased(mealPlanId, strategyType) ==
    /\ hasMealPlan(mealPlanId)
    /\ LET g == generate(createStrategy(strategyType), mealPlans[mealPlanId], recipes)
           total(ing) ==
               IF \E i \in 1..Len(g.list) : ingredientKey(g.list[i]) = ingredientKey(ing)
               THEN g.list[CHOOSE i \in 1..Len(g.list) :
                              ingredientKey(g.list[i]) = ingredientKey(ing)].amount
               ELSE ing.amount
       IN /\ call' = Call("generateShoppingList", mealPlanId, strategyType, Zero,
                          g.ret, g.list,
                          /\ call.op = "generateShoppingList"
                          /\ call.a = mealPlanId
                          /\ call.b = strategyType)
          /\ recipes' = [id \in DOMAIN recipes |->
                LET items == recipes[id].ingredients.items IN
                [recipes[id] EXCEPT !.ingredients.items =
                    [k \in 1..Len(items) |->
                        [items[k] EXCEPT !.amount = total(items[k])]]]]
    /\ UNCHANGED <<mealPlans, users, currentUserId, ids>>

(* generateShoppingList(mealPlanId, strategyType) *)
GenerateShoppingList(mealPlanId, strategyType) ==
    /\ IF ~hasMealPlan(mealPlanId)
       THEN call' = Call("generateShoppingList", mealPlanId, strategyType, Zero,
                         "Error: Meal plan not found", <<>>, FALSE)
       ELSE LET g == generate(createStrategy(strategyType), mealPlans[mealPlanId],
                              recipes)
            IN call' = Call("generateShoppingList", mealPlanId, strategyType, Zero,
                            g.ret, g.list,
                            /\ call.op = "generateShoppingList"
                            /\ call.a = mealPlanId
                            /\ call.b = strategyType)
    /\ UNCHANGED <<recipes, mealPlans, users, currentUserId, ids>>

(* register(name, email) *)
Register(name, email) ==
    /\ Len(users) < MaxUsers
    /\ LET id == newId("user", ids.user + 1) IN
       /\ users' = Append(users, User(id, name, email))
       /\ ids' = [ids EXCEPT !.user = @ + 1]
       /\ call' = Call("register", email, id, Zero, "ok", <<>>, FALSE)
    /\ UNCHANGED <<recipes, mealPlans, currentUserId>>

(* login(email) *)
Login(email) ==
    /\ IF hasUserByEmail(users, email)
       THEN /\ currentUserId' = getUserByEmail(users, email).id
            /\ call' = Call("login", email, getUserByEmail(users, email).id, Zero,
                            "ok", <<>>, FALSE)
       ELSE /\ currentUserId' = currentUserId
            /\ call' = Call("login", email, "", Zero, "null", <<>>, FALSE)
    /\ UNCHANGED <<recipes, mealPlans, users, ids>>

(* logout() *)
Logout ==
    /\ currentUserId' = ""
    /\ call' = Call("logout", "", "", Zero, "ok", <<>>, FALSE)
    /\ UNCHANGED <<recipes, mealPlans, users, ids>>

(* createRecipe(title, ingredients, steps, tags, dietaryFlags) *)
CreateRecipe(title, ingredients, tags, dietaryFlags) ==
    /\ IF ~isLoggedIn
       THEN /\ call' = Call("createRecipe", "", "", Zero,
                            "Error: Must be logged in", <<>>, FALSE)
            /\ UNCHANGED <<recipes, ids>>
       ELSE LET id == newId("recipe", ids.recipe + 1) IN
            /\ ids.recipe < MaxRecipes
            /\ recipes' = put(recipes, id, Recipe(title, ingredients, tags, dietaryFlags))
            /\ ids' = [ids EXCEPT !.recipe = @ + 1]
            /\ call' = Call("createRecipe", id, "", Zero, "ok", <<>>, FALSE)
    /\ UNCHANGED <<mealPlans, users, currentUserId>>

(* createMealPlan without the session test: the plan is stored for whoever *)
(* currentUserId names, nobody included                                    *)
CreateMealPlanNoSession(name) ==
    /\ LET id == newId("plan", ids.plan + 1) IN
       /\ ids.plan < MaxPlans
       /\ mealPlans' = put(mealPlans, id, MealPlan(currentUserId, name, <<>>))
       /\ ids' = [ids EXCEPT !.plan = @ + 1]
       /\ call' = Call("createMealPlan", id, "", Zero, "ok", <<>>, FALSE)
    /\ UNCHANGED <<recipes, users, currentUserId>>

(* createMealPlan(name) *)
CreateMealPlan(name) ==
    /\ IF ~isLoggedIn
       THEN /\ call' = Call("createMealPlan", "", "", Zero,
                            "Error: Must be logged in", <<>>, FALSE)
            /\ UNCHANGED <<mealPlans, ids>>
       ELSE LET id == newId("plan", ids.plan + 1) IN
            /\ ids.plan < MaxPlans
            /\ mealPlans' = put(mealPlans, id, MealPlan(currentUserId, name, <<>>))
            /\ ids' = [ids EXCEPT !.plan = @ + 1]
            /\ call' = Call("createMealPlan", id, "", Zero, "ok", <<>>, FALSE)
    /\ UNCHANGED <<recipes, users, currentUserId>>

(* shareMealPlan handing the plan itself over to the target user instead   *)
(* of saving a copy                                                        *)
ShareMealPlanMoved(mealPlanId, targetUserEmail) ==
    /\ hasMealPlan(mealPlanId)
    /\ currentUserIsObject
    /\ mealPlans[mealPlanId].userId = currentUserId
    /\ hasUserByEmail(users, targetUserEmail)
    /\ mealPlans' = put(mealPlans, mealPlanId,
                        [mealPlans[mealPlanId] EXCEPT
                            !.userId = getUserByEmail(users, targetUserEmail).id])
    /\ call' = Call("shareMealPlan", mealPlanId, targetUserEmail, Zero, "ok", <<>>,
                    FALSE)
    /\ UNCHANGED <<recipes, users, currentUserId, ids>>

(* shareMealPlan(mealPlanId, targetUserEmail) *)
ShareMealPlan(mealPlanId, targetUserEmail) ==
    /\ IF ~hasMealPlan(mealPlanId)
       THEN /\ call' = Call("shareMealPlan", mealPlanId, targetUserEmail, Zero,
                            "Error: Meal plan not found", <<>>, FALSE)
            /\ UNCHANGED <<mealPlans, ids>>
       ELSE IF ~currentUserIsObject
       THEN /\ call' = Call("shareMealPlan", mealPlanId, targetUserEmail, Zero, "TypeError",
                            <<>>, FALSE)
            /\ UNCHANGED <<mealPlans, ids>>
       ELSE IF mealPlans[mealPlanId].userId # currentUserId
       THEN /\ call' = Call("shareMealPlan", mealPlanId, targetUserEmail, Zero,
                            "Error: Not your meal plan", <<>>, FALSE)
            /\ UNCHANGED <<mealPlans, ids>>
       ELSE IF ~hasUserByEmail(users, targetUserEmail)
       THEN /\ call' = Call("shareMealPlan", mealPlanId, targetUserEmail, Zero,
                            "Error: Target user not found", <<>>, FALSE)
            /\ UNCHANGED <<mealPlans, ids>>
       ELSE LET id == newId("plan", ids.plan + 1)
                sharedPlan ==
                    MealPlan(getUserByEmail(users, targetUserEmail).id,
                             mealPlans[mealPlanId].name \o " (Shared by "
                                 \o getUser(users, currentUserId).name \o ")",
                             mealPlans[mealPlanId].entries)
            IN /\ ids.plan < MaxPlans
               /\ mealPlans' = put(mealPlans, id, sharedPlan)
               /\ ids' = [ids EXCEPT !.plan = @ + 1]
               /\ call' = Call("shareMealPlan", mealPlanId, targetUserEmail, Zero,
                               "ok", <<>>, FALSE)
    /\ UNCHANGED <<recipes, users, currentUserId>>

-----------------------------------------------------------------------------
(* Aggregation: a store of two recipes drawn from a catalogue and one meal *)
(* plan of the logged-in user, extended entry by entry; recipes may be     *)
(* deleted under the plan; the shopping list is generated at any point.    *)

SoyDrink ==
    Recipe("Soy Drink",
           Array(<<Ingredient(Soy, 1, u_milk_cup), Ingredient(Garlic, 2, undefined),
                   Ingredient(Garlic, 1, u_cloves), Ingredient(Garlic, 2, undefined)>>),
           {"drink"}, {"vegan"})

SoyMilkShake ==
    Recipe("Soy-milk Shake",
           Array(<<Ingredient(SoyMilk, 2, u_cup), Ingredient(RYE, 1, u_g),
                   Ingredient(Garlic, 4, u_cloves)>>),
           {"vegan", "gluten-free"}, {"vegan", "gluten-free"})

NoIngredients == Recipe("Water", Array(<<>>), {}, {})

NullIngredients == Recipe("Air", null, {}, {})

FirstRecipes == {GrilledChicken, SoyDrink, NoIngredients}

SecondRecipes == {PastaCarbonara, SoyMilkShake, NullIngredients}

Plan1 == newId("plan", 1)

Recipe1 == newId("recipe", 1)

Recipe2 == newId("recipe", 2)

(* an identifier no recipe was ever saved under *)
RecipeNeverSaved == "recipe-0"

EntryRecipeIds == {Recipe1, Recipe2, RecipeNeverSaved, ""}

StrategyTypes == {"basic", "vegan", "glutenFree", "paleo"}

InitAgg ==
    /\ users = SampleUsers
    /\ currentUserId = newId("user", 1)
    /\ \E a \in FirstRecipes, b \in SecondRecipes :
          recipes = (Recipe1 :> a) @@ (Recipe2 :> b)
    /\ mealPlans = (Plan1 :> MealPlan(newId("user", 1), "Weekly Dinner Plan", <<>>))
    /\ ids = [user |-> 2, recipe |-> 2, plan |-> 1]
    /\ call = NoCall

NextAgg ==
    \/ \E rid \in EntryRecipeIds : AddToMealPlan(Plan1, "Monday", rid)
    \/ \E id \in {Recipe1, Recipe2} : DeleteRecipe(id)
    \/ \E t \in StrategyTypes : GenerateShoppingList(Plan1, t)

SpecAgg == InitAgg /\ [][NextAgg]_vars

-----------------------------------------------------------------------------
(* Amounts: the Ingredient constructor stores the amount it is given, so a *)
(* recipe may carry a negative one.                                        *)

Leftovers ==
    Recipe("Leftovers",
           Array(<<Ingredient(Lemon, 3, u_none), Ingredient(Lemon, -1, u_none),
                   Ingredient(Garlic, -2, u_cloves)>>),
           {}, {})

InitAmounts ==
    /\ users = SampleUsers
    /\ currentUserId = newId("user", 1)
    /\ \E a \in {GrilledChicken, Leftovers}, b \in {PastaCarbonara, NoIngredients} :
          recipes = (Recipe1 :> a) @@ (Recipe2 :> b)
    /\ mealPlans = (Plan1 :> MealPlan(newId("user", 1), "Weekly Dinner Plan", <<>>))
    /\ ids = [user |-> 2, recipe |-> 2, plan |-> 1]
    /\ call = NoCall

SpecAmounts == InitAmounts /\ [][NextAgg]_vars

-----------------------------------------------------------------------------
(* Rendering: ingredients are constructed and rendered with toString.      *)

(* the characters of a text as one string *)
RECURSIVE text(_)
text(s) == IF s = <<>> THEN "" ELSE Head(s) \o text(Tail(s))

(* new Ingredient(name, amount, unit).toString(): list holds the           *)
(* ingredient, ret the text returned                                       *)
IngredientToString(name, amount, unit) ==
    /\ call' = Call("toString", "", "", Zero,
                    text(toString(Ingredient(name, amount, unit))),
                    <<Ingredient(name, amount, unit)>>, FALSE)
    /\ UNCHANGED <<recipes, mealPlans, users, currentUserId, ids>>

RenderedNames == {Carrot, BellPepper, Garlic, ChickenBreast, Pasta}

RenderedAmounts == {0, 1, 2, 10, 250, -1}

RenderedUnits == {u_none, undefined, u_g, u_tbsp, u_cloves}

NextRender ==
    \E n \in RenderedNames, a \in RenderedAmounts, u \in RenderedUnits :
        IngredientToString(n, a, u)

SpecRender == Init /\ [][NextRender]_vars

-----------------------------------------------------------------------------
(* Rating: the application after construction, its recipes rated through   *)
(* the facade and directly.                                                *)

RateValues == {Num(0, 1), Num(1, 1), Num(5, 2), Num(3, 1), Num(5, 1), Num(6, 1)}

Recipe3 == newId("recipe", 3)

NextRate ==
    \/ \E id \in {Recipe1, Recipe2, Recipe3, RecipeNeverSaved}, v \in RateValues :
          RateRecipe(id, v)
    \/ \E id \in {Recipe1, Recipe2, Recipe3}, v \in RateValues : RecipeRate(id, v)

SpecRate == Init /\ [][NextRate]_vars

-----------------------------------------------------------------------------
(* The classes of src/unnamed/part_002, which has neither facade nor       *)
(* sample data: a repository holding two recipes saved under given ids and *)
(* one meal plan; recipes are rated, entries added, lists generated.       *)

InitDraft ==
    /\ users = <<>>
    /\ currentUserId = ""
    /\ recipes = (Recipe1 :> GrilledChicken) @@ (Recipe2 :> PastaCarbonara)
    /\ mealPlans = (Plan1 :> MealPlan("", "Weekly Dinner Plan", <<>>))
    /\ ids = [user |-> 0, recipe |-> 0, plan |-> 0]
    /\ call = NoCall

(* repository.getRecipe(recipeId).rate(rating) *)
Rate_part002(recipeId, rating) ==
    /\ hasRecipe(recipes, recipeId)
    /\ LET r == rate_part002(recipes[recipeId], rating) IN
       /\ totalRatings(put(recipes, recipeId, r.recipe)) <= MaxRatings
       /\ recipes' = put(recipes, recipeId, r.recipe)
       /\ call' = Call("rate", recipeId, "", rating, r.ret, <<>>, FALSE)
    /\ UNCHANGED <<mealPlans, users, currentUserId, ids>>

(* repository.getMealPlan(mealPlanId).addEntry(new PlanEntry(day, recipeId)) *)
AddEntry_part002(mealPlanId, day, recipeId) ==
    /\ hasMealPlan(mealPlanId)
    /\ Len(mealPlans[mealPlanId].entries) < MaxEntries
    /\ mealPlans' = put(mealPlans, mealPlanId,
                        addEntry(mealPlans[mealPlanId], PlanEntry(day, recipeId)))
    /\ call' = Call("addEntry", mealPlanId, recipeId, Zero, "ok", <<>>, FALSE)
    /\ UNCHANGED <<recipes, users, currentUserId, ids>>

(* ShoppingListStrategyFactory.createStrategy(type).generate(mealPlan, repo) *)
Generate_part002(mealPlanId, type) ==
    /\ hasMealPlan(mealPlanId)
    /\ LET g == generate_part002(createStrategy(type), mealPlans[mealPlanId], recipes)
       IN call' = Call("generate", mealPlanId, type, Zero, g.ret, g.list, FALSE)
    /\ UNCHANGED <<recipes, mealPlans, users, currentUserId, ids>>

DraftRateValues == {Num(0, 1), Num(3, 1), Num(5, 1), Num(6, 1)}

NextDraft ==
    \/ \E id \in {Recipe1, Recipe2}, v \in DraftRateValues : Rate_part002(id, v)
    \/ \E rid \in {Recipe1, Recipe2} : AddEntry_part002(Plan1, "Monday", rid)
    \/ \E t \in {"basic", "vegan"} : Generate_part002(Plan1, t)

SpecDraft == InitDraft /\ [][NextDraft]_vars

-----------------------------------------------------------------------------
(* Users: registration and the session, from the application as built.    *)

Alice == "alice@example.com"

Bob == "bob@example.com"

Carol == "carol@example.com"

(* an address nobody registers *)
Dave == "dave@example.com"

NextUsers ==
    \/ \E n \in {"Carol", "Alice", "Bob"}, e \in {Alice, Bob, Carol} : Register(n, e)
    \/ \E e \in {Alice, Bob, Carol, Dave} : Login(e)
    \/ Logout

SpecUsers == Init /\ [][NextUsers]_vars

-----------------------------------------------------------------------------
(* The facade's session and ownership rules: users register, log in and    *)
(* out, create meal plans, extend them and share them.                     *)

PlanIds == {newId("plan", k) : k \in 1..MaxPlans}

totalEntries ==
    LET RECURSIVE total(_)
        total(S) == IF S = {} THEN 0
                    ELSE LET p == CHOOSE x \in S : TRUE
                         IN Len(mealPlans[p].entries) + total(S \ {p})
    IN total(DOMAIN mealPlans)

Next ==
    \/ Register("Carol", Carol)
    \/ \E e \in {Alice, Bob, Carol} : Login(e)
    \/ Logout
    \/ CreateMealPlan("Weekly Dinner Plan")
    \/ \E p \in PlanIds :
          /\ totalEntries < MaxSessionEntries
          /\ AddToMealPlan(p, "Monday", Recipe1)
    \/ \E p \in PlanIds, e \in {Bob, Carol} : ShareMealPlan(p, e)

Spec == Init /\ [][Next]_vars

-----------------------------------------------------------------------------
(* The session: users register, log in and out, and create recipes and     *)
(* meal plans.                                                             *)

NextSession ==
    \/ Register("Carol", Carol)
    \/ \E e \in {Alice, Bob, Carol} : Login(e)
    \/ Logout
    \/ \E r \in {NoIngredients, SoyDrink} :
          CreateRecipe(r.title, r.ingredients, r.tags, r.dietaryFlags)
    \/ CreateMealPlan("Weekly Dinner Plan")

SpecSession == Init /\ [][NextSession]_vars

-----------------------------------------------------------------------------
(* Vocabulary of the properties *)

Range(f) == {f[i] : i \in DOMAIN f}

Count(seq, x) == Cardinality({i \in 1..Len(seq) : seq[i] = x})

(* the same multiset of (name, unit, amount) tuples *)
SameBag(a, b) ==
    /\ Len(a) = Len(b)
    /\ \A x \in Range(a) \cup Range(b) : Count(a, x) = Count(b, x)

(* The ingredient occurrences of a plan: the ingredients of the recipes    *)
(* its entries resolve to, entry by entry.                                 *)
EntryIngredients(repo, entry) ==
    IF entry.recipeId \in DOMAIN repo /\ ~repo[entry.recipeId].ingredients.isNull
    THEN repo[entry.recipeId].ingredients.items
    ELSE <<>>

RECURSIVE Occurrences(_, _)
Occurrences(entries, repo) ==
    IF entries = <<>> THEN <<>>
    ELSE EntryIngredients(repo, Head(entries)) \o Occurrences(Tail(entries), repo)

RECURSIVE SumAmounts(_, _, _)
SumAmounts(occ, name, unit) ==
    IF occ = <<>> THEN 0
    ELSE (IF Head(occ).name = name /\ Head(occ).unit = unit THEN Head(occ).amount ELSE 0)
         + SumAmounts(Tail(occ), name, unit)

Pair(ing) == <<ing.name, ing.unit>>

Reorderings(n) ==
    {f \in [1..n -> 1..n] : \A i, j \in 1..n : f[i] = f[j] => i = j}

Denied(name, terms) ==
    LET lower == toLowerCase(name)
    IN \E t \in Range(terms) : includes(lower, t)

(* v is b with exactly the ingredients denied by terms removed, in b's order *)
IsFiltered(v, b, terms) ==
    LET keep == {i \in 1..Len(b) : ~Denied(b[i].name, terms)}
        nth(k) == CHOOSE i \in keep : Cardinality({j \in keep : j < i}) = k - 1
    IN /\ Len(v) = Cardinality(keep)
       /\ \A k \in 1..Len(v) : v[k] = b[nth(k)]

-----------------------------------------------------------------------------
(* C1: for every meal plan and every (name, unit) key occurring in the     *)
(* recipes its entries resolve to, the basic result has an entry with that *)
(* name and unit whose amount is the sum of the amounts of all occurrences *)
(* of that key, a recipe counted once per entry that references it.        *)
C1_AmountIsSumPerKey ==
    \A p \in DOMAIN mealPlans :
        LET res == BasicGenerate(mealPlans[p], recipes)
            occ == Occurrences(mealPlans[p].entries, recipes)
        IN \A i \in 1..Len(occ) :
              \E j \in 1..Len(res) :
                 /\ Pair(res[j]) = Pair(occ[i])
                 /\ res[j].amount = SumAmounts(occ, occ[i].name, occ[i].unit)

(* C2: the basic result holds exactly one entry per distinct (name, unit)  *)
(* pair occurring in the resolved recipes: occurrences are merged if and   *)
(* only if they agree in name and in unit.                                 *)
C2_OneEntryPerNameUnitPair ==
    \A p \in DOMAIN mealPlans :
        LET res == BasicGenerate(mealPlans[p], recipes)
            occ == Occurrences(mealPlans[p].entries, recipes)
        IN /\ {Pair(res[j]) : j \in 1..Len(res)} = {Pair(occ[i]) : i \in 1..Len(occ)}
           /\ Len(res) = Cardinality({Pair(occ[i]) : i \in 1..Len(occ)})

(* C3: permuting the entries of a meal plan does not change the multiset   *)
(* of (name, unit, amount) tuples of the basic result.                     *)
C3_EntryOrderIrrelevant ==
    \A p \in DOMAIN mealPlans :
        LET plan == mealPlans[p]
            n == Len(plan.entries)
        IN \A f \in Reorderings(n) :
              SameBag(BasicGenerate([plan EXCEPT !.entries = [i \in 1..n |-> plan.entries[f[i]]]],
                                    recipes),
                      BasicGenerate(plan, recipes))

(* C4: a generateShoppingList call that repeats the call before it, with   *)
(* nothing in between, returns the same multiset of (name, unit, amount)   *)
(* tuples as that call, whatever the strategy.                             *)
C4_RepeatedGenerateSameBag ==
    [][(/\ call.op = "generateShoppingList"
        /\ call'.op = "generateShoppingList"
        /\ call'.a = call.a
        /\ call'.b = call.b)
       => (call'.ret = call.ret /\ SameBag(call'.list, call.list))]_vars

(* C4 witness: a list with a merged amount was generated twice in a row *)
C4_Witness ==
    /\ call.op = "generateShoppingList"
    /\ call.again
    /\ call.ret = "ok"
    /\ \E i \in 1..Len(mealPlans[call.a].entries) :
          \E j \in 1..Len(mealPlans[call.a].entries) :
             /\ i # j
             /\ mealPlans[call.a].entries[i] = mealPlans[call.a].entries[j]
             /\ EntryIngredients(recipes, mealPlans[call.a].entries[i]) # <<>>

(* the entries the aggregation has something to take from *)
Contributing(plan, repo) ==
    SelectSeq(plan.entries, LAMBDA e : EntryIngredients(repo, e) # <<>>)

(* C5: entries whose recipe id is not in the store or whose recipe has no  *)
(* ingredients are skipped without an error: every strategy returns what   *)
(* it returns for the plan with those entries removed.                     *)
C5_UnresolvedEntriesSkipped ==
    \A p \in DOMAIN mealPlans :
        \A t \in StrategyTypes :
            LET plan == mealPlans[p]
                rest == [plan EXCEPT !.entries = Contributing(plan, recipes)]
                g == generate(createStrategy(t), plan, recipes)
            IN /\ g.ret = "ok"
               /\ g = generate(createStrategy(t), rest, recipes)

(* C5 witness: a list was generated for a plan that references a deleted   *)
(* recipe and a recipe that is still there                                 *)
C5_Witness ==
    /\ call.op = "generateShoppingList"
    /\ call.ret = "ok"
    /\ call.list # <<>>
    /\ \E i, j \in 1..Len(mealPlans[call.a].entries) :
          /\ i < j
          /\ mealPlans[call.a].entries[i].recipeId \in {Recipe1, Recipe2} \ DOMAIN recipes
          /\ EntryIngredients(recipes, mealPlans[call.a].entries[j]) # <<>>

(* C6: the vegan result is the basic result without exactly the            *)
(* ingredients whose lower-cased name contains a term of the vegan         *)
(* denylist, amounts and relative order unchanged.                         *)
C6_VeganIsFilteredBasic ==
    \A p \in DOMAIN mealPlans :
        LET b == BasicGenerate(mealPlans[p], recipes)
            v == VeganGenerate(mealPlans[p], recipes)
        IN /\ IsFiltered(v, b, nonVegan)
           /\ \A k \in 1..Len(v) : ~Denied(v[k].name, nonVegan)
           /\ \A i \in 1..Len(b) :
                 (\A k \in 1..Len(v) : v[k] # b[i]) => Denied(b[i].name, nonVegan)

(* C6 witness: a vegan list that dropped an ingredient written with a      *)
(* capital letter and kept others                                          *)
C6_Witness ==
    /\ call.op = "generateShoppingList"
    /\ call.b = "vegan"
    /\ call.list # <<>>
    /\ \E x \in Range(BasicGenerate(mealPlans[call.a], recipes)) :
          /\ x \notin Range(call.list)
          /\ ~\E t \in Range(nonVegan) : includes(x.name, t)

(* C7: the gluten-free result is the basic result without exactly the      *)
(* ingredients whose lower-cased name contains a term of the gluten        *)
(* denylist, in the basic result's order; "Chicken Breast" stays in the    *)
(* gluten-free result and is absent from the vegan one.                    *)
C7_GlutenFreeIsFilteredBasic ==
    \A p \in DOMAIN mealPlans :
        LET b == BasicGenerate(mealPlans[p], recipes)
            g == GlutenFreeGenerate(mealPlans[p], recipes)
            v == VeganGenerate(mealPlans[p], recipes)
        IN /\ IsFiltered(g, b, gluten)
           /\ \A x \in Range(b) :
                 x.name = ChickenBreast => (x \in Range(g) /\ x \notin Range(v))

(* C7 witness: a gluten-free list that kept Chicken Breast and dropped     *)
(* another ingredient                                                      *)
C7_Witness ==
    /\ call.op = "generateShoppingList"
    /\ call.b = "glutenFree"
    /\ \E x \in Range(call.list) : x.name = ChickenBreast
    /\ Len(call.list) < Len(BasicGenerate(mealPlans[call.a], recipes))

KnownTypes == {"basic", "vegan", "glutenFree"}

(* C8: createStrategy maps basic, vegan and glutenFree to their strategies *)
(* and any other token to the basic strategy; generateShoppingList with an *)
(* unrecognized token raises nothing and returns the basic result.         *)
C8_UnknownTypeFallsBackToBasic ==
    /\ createStrategy("basic") = "BasicShoppingListStrategy"
    /\ createStrategy("vegan") = "VeganShoppingListStrategy"
    /\ createStrategy("glutenFree") = "GlutenFreeShoppingListStrategy"
    /\ \A t \in StrategyTypes \ KnownTypes :
          createStrategy(t) = "BasicShoppingListStrategy"
    /\ (/\ call.op = "generateShoppingList"
        /\ call.b \notin KnownTypes
        /\ hasMealPlan(call.a))
       => (/\ call.ret = "ok"
           /\ call.list = BasicGenerate(mealPlans[call.a], recipes))

(* C8 witness: a list generated for the token paleo that the vegan         *)
(* strategy would have shortened                                           *)
C8_Witness ==
    /\ call.op = "generateShoppingList"
    /\ call.b = "paleo"
    /\ call.ret = "ok"
    /\ Len(VeganGenerate(mealPlans[call.a], recipes)) < Len(call.list)

-----------------------------------------------------------------------------
isValidRating(v) == v.n >= v.d /\ v.n <= 5 * v.d

(* rating is the arithmetic mean of ratings, or 0 when there are none *)
IsMean(rating, ratings) ==
    IF ratings = <<>> THEN rating.n = 0
    ELSE LET sum == reduceSum(Zero, ratings)
         IN rating.n * sum.d * Len(ratings) = sum.n * rating.d

(* C9: after any sequence of rate calls every recipe's rating is the mean  *)
(* of its ratings (0 when empty), and a call rate(v) with 1 <= v <= 5      *)
(* returned true and left v as the last element of ratings.                *)
C9_RatingIsMeanOfRatings ==
    /\ \A id \in DOMAIN recipes : IsMean(recipes[id].rating, recipes[id].ratings)
    /\ (/\ call.op \in {"rate", "rateRecipe"}
        /\ hasRecipe(recipes, call.a)
        /\ isValidRating(call.v))
       => (/\ call.ret = "true"
           /\ recipes[call.a].ratings # <<>>
           /\ recipes[call.a].ratings[Len(recipes[call.a].ratings)] = call.v)

(* C10: rate(v) and rateRecipe(id, v) on a stored recipe with v outside    *)
(* [1,5] return false, raise nothing and leave every stored recipe, its    *)
(* ratings and rating included, as it was.                                 *)
C10_InvalidRatingRejected ==
    [][(/\ call'.op \in {"rate", "rateRecipe"}
        /\ hasRecipe(recipes, call'.a)
        /\ ~isValidRating(call'.v))
       => (call'.ret = "false" /\ recipes' = recipes)]_vars

(* C10 witness: rateRecipe with 6 was refused on a recipe that has ratings *)
C10_Witness ==
    /\ call.op = "rateRecipe"
    /\ call.v = Num(6, 1)
    /\ call.ret = "false"
    /\ hasRecipe(recipes, call.a)
    /\ Len(recipes[call.a].ratings) >= 2


(* C11: after any sequence of register calls no two stored users have the  *)
(* same email address.                                                     *)
C11_UsersUniqueByEmail ==
    \A i, j \in 1..Len(users) :
        users[i].email = users[j].email => i = j

(* what a recipe may carry as tags and as dietaryFlags *)
Labels == {{}, {"vegan", "gluten-free"}}

(* the stores that differ from repo only in their recipes' tags and        *)
(* dietaryFlags                                                            *)
Relabelled(repo) ==
    {[id \in DOMAIN repo |->
         [repo[id] EXCEPT !.tags = l[id], !.dietaryFlags = l[id]]] :
     l \in [DOMAIN repo -> Labels]}

(* C12: the vegan and the gluten-free strategy return, for every meal plan, *)
(* the same result on every store that differs from the repository only in *)
(* the tags and dietaryFlags of its recipes.                                *)
C12_FlagsAndTagsIgnored ==
    \A p \in DOMAIN mealPlans : \A other \in Relabelled(recipes) :
        /\ VeganGenerate(mealPlans[p], other) = VeganGenerate(mealPlans[p], recipes)
        /\ GlutenFreeGenerate(mealPlans[p], other)
              = GlutenFreeGenerate(mealPlans[p], recipes)

(* C12 witness: a vegan list was generated for a plan with a recipe that is *)
(* flagged vegan, and an ingredient of that recipe was removed              *)
C12_Witness ==
    /\ call.op = "generateShoppingList"
    /\ call.b = "vegan"
    /\ \E i \in 1..Len(mealPlans[call.a].entries) :
          LET rid == mealPlans[call.a].entries[i].recipeId IN
          /\ resolves(recipes, rid)
          /\ "vegan" \in recipes[rid].dietaryFlags
          /\ \E x \in Range(recipes[rid].ingredients.items) :
                /\ Denied(x.name, nonVegan)
                /\ \A y \in Range(call.list) : y.name # x.name

(* the distinct elements of a sequence, each at its first occurrence *)
RECURSIVE FirstOccurrences(_, _)
FirstOccurrences(seen, s) ==
    IF s = <<>> THEN seen
    ELSE FirstOccurrences(IF Head(s) \in Range(seen) THEN seen
                          ELSE Append(seen, Head(s)),
                          Tail(s))

(* C13: the basic result lists one entry per distinct (name, unit) merge    *)
(* key, in the order in which the keys first occur when the plan's entries  *)
(* are traversed in order and each recipe's ingredients in order.           *)
C13_OrderOfFirstOccurrence ==
    \A p \in DOMAIN mealPlans :
        LET res == BasicGenerate(mealPlans[p], recipes)
            occ == Occurrences(mealPlans[p].entries, recipes)
        IN [j \in 1..Len(res) |-> Pair(res[j])]
              = FirstOccurrences(<<>>, [i \in 1..Len(occ) |-> Pair(occ[i])])

(* C14: after any sequence of rate calls every element of every recipe's   *)
(* ratings is an integer between 1 and 5.                                   *)
C14_RatingsAreIntegersOneToFive ==
    \A id \in DOMAIN recipes : \A i \in 1..Len(recipes[id].ratings) :
        /\ recipes[id].ratings[i].d = 1
        /\ recipes[id].ratings[i].n \in 1..5

(* r holds the recipeId of every entry whose recipeId is not falsy, in the  *)
(* entries' order, once per entry                                           *)
IsTruthyRecipeIds(r, entries) ==
    LET keep == {i \in 1..Len(entries) : entries[i].recipeId # ""}
        nth(k) == CHOOSE i \in keep : Cardinality({j \in keep : j < i}) = k - 1
    IN /\ Len(r) = Cardinality(keep)
       /\ \A k \in 1..Len(r) : r[k] = entries[nth(k)].recipeId

(* C15: getRecipeIds returns the recipeIds of the plan's entries in entry   *)
(* order, without exactly the falsy ones and with duplicates kept; every    *)
(* step leaves the entries a plan had as a prefix of its entries, and a     *)
(* successful addToMealPlan appends exactly the new entry at the end.       *)
C15_RecipeIdsInEntryOrder ==
    /\ [](\A p \in DOMAIN mealPlans :
             IsTruthyRecipeIds(getRecipeIds(mealPlans[p]), mealPlans[p].entries))
    /\ [][/\ \A p \in DOMAIN mealPlans :
                /\ p \in DOMAIN mealPlans'
                /\ Len(mealPlans'[p].entries) >= Len(mealPlans[p].entries)
                /\ SubSeq(mealPlans'[p].entries, 1, Len(mealPlans[p].entries))
                      = mealPlans[p].entries
          /\ (call'.op = "addToMealPlan" /\ call'.ret = "ok")
                => /\ Len(mealPlans'[call'.a].entries)
                         = Len(mealPlans[call'.a].entries) + 1
                   /\ mealPlans'[call'.a].entries[Len(mealPlans'[call'.a].entries)]
                         .recipeId = call'.b]_vars

(* C15 witness: an entry was appended to a plan that names one recipe twice *)
(* and has an entry without a recipe, and getRecipeIds is shorter than the  *)
(* entries                                                                  *)
C15_Witness ==
    /\ call.op = "addToMealPlan"
    /\ call.ret = "ok"
    /\ \E i, j, k \in 1..Len(mealPlans[call.a].entries) :
          /\ i < j
          /\ mealPlans[call.a].entries[i].recipeId = Recipe1
          /\ mealPlans[call.a].entries[j].recipeId = Recipe1
          /\ mealPlans[call.a].entries[k].recipeId = ""
    /\ Len(getRecipeIds(mealPlans[call.a])) = 2

(* the entries accumulated after the first k ingredient occurrences *)
Accumulated(occ, k) == mapValues(forEachIngredient(<<>>, SubSeq(occ, 1, k)))

(* C16: every ingredient of a basic result has a non-negative amount, and   *)
(* merging one more occurrence never decreases the amount accumulated in an *)
(* entry.                                                                   *)
C16_AmountsNonNegative ==
    \A p \in DOMAIN mealPlans :
        LET res == BasicGenerate(mealPlans[p], recipes)
            occ == Occurrences(mealPlans[p].entries, recipes)
        IN /\ \A j \in 1..Len(res) : res[j].amount >= 0
           /\ \A k \in 0..(Len(occ) - 1) :
                 \A j \in 1..Len(Accumulated(occ, k)) :
                    Accumulated(occ, k + 1)[j].amount >= Accumulated(occ, k)[j].amount

(* C17: toString renders the amount, the unit and the name separated by     *)
(* single spaces, and the amount and the name separated by a single space   *)
(* when the unit is empty: amount 2, unit '', name Carrot gives "2 Carrot". *)
C17_ToStringCollapsesWhitespace ==
    call.op = "toString" =>
        LET ing == call.list[1] IN
        call.ret = IF ing.unit = <<>>
                   THEN ToString(ing.amount) \o " " \o text(ing.name)
                   ELSE ToString(ing.amount) \o " " \o text(ing.unit)
                           \o " " \o text(ing.name)

(* C18: a generateShoppingList call, whatever its strategy token, leaves    *)
(* the stored recipes with their ingredient lists and amounts, the meal     *)
(* plans with their entries, the users and the current user as they were.   *)
C18_GenerateChangesNothing ==
    [][call'.op = "generateShoppingList"
       => /\ recipes' = recipes
          /\ mealPlans' = mealPlans
          /\ users' = users
          /\ currentUserId' = currentUserId]_vars

(* C18 witness: a list was generated in which an amount was accumulated     *)
(* beyond the amount of a stored ingredient with the same name and unit     *)
C18_Witness ==
    /\ call.op = "generateShoppingList"
    /\ call.ret = "ok"
    /\ \E x \in Range(call.list) : \E id \in DOMAIN recipes :
          \E y \in Range(recipes[id].ingredients.items) :
             /\ Pair(y) = Pair(x)
             /\ x.amount > y.amount

(* C19: addToMealPlan succeeds only when the plan exists and the current    *)
(* user is its owner; otherwise (another user logged in, nobody logged in,  *)
(* no such plan) it ends with an error and no plan's entries change. No     *)
(* step changes the entries of a plan unless it is an addToMealPlan on that *)
(* plan by its owner.                                                       *)
C19_OnlyOwnerExtendsPlan ==
    [][/\ call'.op = "addToMealPlan" =>
             IF /\ hasMealPlan(call'.a)
                /\ currentUserId # ""
                /\ mealPlans[call'.a].userId = currentUserId
             THEN call'.ret = "ok"
             ELSE /\ call'.ret \in {"Error: Meal plan not found",
                                    "Error: Not your meal plan", "TypeError"}
                  /\ DOMAIN mealPlans' = DOMAIN mealPlans
                  /\ \A p \in DOMAIN mealPlans :
                        mealPlans'[p].entries = mealPlans[p].entries
       /\ \A p \in DOMAIN mealPlans :
             mealPlans'[p].entries # mealPlans[p].entries
                => /\ call'.op = "addToMealPlan"
                   /\ call'.a = p
                   /\ currentUserId = mealPlans[p].userId]_vars

(* C19 witness: a user who does not own the plan was refused after the      *)
(* owner had added an entry to it                                           *)
C19_Witness ==
    /\ call.op = "addToMealPlan"
    /\ call.ret = "Error: Not your meal plan"
    /\ currentUserId # ""
    /\ mealPlans[call.a].userId # currentUserId
    /\ mealPlans[call.a].entries # <<>>

(* C20: shareMealPlan by the plan's owner to a registered user stores       *)
(* exactly one new plan, owned by that user, with the entries the original  *)
(* has at that time, and leaves every plan stored before, the original with *)
(* its owner, entries and sharedWith included, as it was; a successful      *)
(* addToMealPlan changes no plan but the one it names.                      *)
C20_SharedPlanIsSeparateCopy ==
    [][/\ (/\ call'.op = "shareMealPlan"
           /\ hasMealPlan(call'.a)
           /\ currentUserId # ""
           /\ mealPlans[call'.a].userId = currentUserId
           /\ hasUserByEmail(users, call'.b))
          => /\ call'.ret = "ok"
             /\ Cardinality(DOMAIN mealPlans' \ DOMAIN mealPlans) = 1
             /\ \A c \in DOMAIN mealPlans' \ DOMAIN mealPlans :
                   /\ \E i \in 1..Len(users) :
                         /\ users[i].email = call'.b
                         /\ users[i].id = mealPlans'[c].userId
                   /\ mealPlans'[c].entries = mealPlans[call'.a].entries
             /\ \A p \in DOMAIN mealPlans : mealPlans'[p] = mealPlans[p]
       /\ (call'.op = "addToMealPlan" /\ call'.ret = "ok")
          => \A p \in DOMAIN mealPlans \ {call'.a} : mealPlans'[p] = mealPlans[p]]_vars

(* C20 witness: the owner added an entry to a plan after sharing it with    *)
(* an entry in it; the copy, owned by another user, still has the entries   *)
(* of the time of sharing                                                   *)
C20_Witness ==
    /\ call.op = "addToMealPlan"
    /\ call.ret = "ok"
    /\ \E c \in DOMAIN mealPlans \ {call.a} :
          /\ mealPlans[c].userId # mealPlans[call.a].userId
          /\ mealPlans[c].name
                = mealPlans[call.a].name \o " (Shared by "
                     \o getUser(users, mealPlans[call.a].userId).name \o ")"
          /\ mealPlans[c].entries # <<>>
          /\ Len(mealPlans[c].entries) < Len(mealPlans[call.a].entries)
          /\ mealPlans[c].entries
                = SubSeq(mealPlans[call.a].entries, 1, Len(mealPlans[c].entries))

(* C21: the session is opened by a successful login only and closed by      *)
(* logout; register, a failed login, createRecipe and createMealPlan leave  *)
(* it as it is. createRecipe and createMealPlan called with no session end  *)
(* with 'Must be logged in' and add nothing to the repository; called with  *)
(* a session they store exactly one new recipe or plan, the plan with the   *)
(* current user's id as userId.                                             *)
C21_CreateOnlyWhileLoggedIn ==
    [][/\ call'.op = "logout" => currentUserId' = ""
       /\ (call'.op = "login" /\ call'.ret = "ok")
             => \E i \in 1..Len(users) :
                   /\ users[i].email = call'.a
                   /\ users[i].id = currentUserId'
                   /\ currentUserId' # ""
       /\ (\/ call'.op \in {"register", "createRecipe", "createMealPlan"}
           \/ (call'.op = "login" /\ call'.ret # "ok"))
             => currentUserId' = currentUserId
       /\ call'.op \in {"createRecipe", "createMealPlan"}
             => IF currentUserId = ""
                THEN /\ call'.ret = "Error: Must be logged in"
                     /\ recipes' = recipes
                     /\ mealPlans' = mealPlans
                     /\ users' = users
                ELSE call'.ret = "ok"
       /\ (call'.op = "createRecipe" /\ call'.ret = "ok")
             => /\ Cardinality(DOMAIN recipes' \ DOMAIN recipes) = 1
                /\ \A id \in DOMAIN recipes : recipes'[id] = recipes[id]
                /\ mealPlans' = mealPlans
       /\ (call'.op = "createMealPlan" /\ call'.ret = "ok")
             => /\ Cardinality(DOMAIN mealPlans' \ DOMAIN mealPlans) = 1
                /\ \A p \in DOMAIN mealPlans' \ DOMAIN mealPlans :
                      /\ mealPlans'[p].userId = currentUserId
                      /\ hasUser(users, mealPlans'[p].userId)
                /\ \A p \in DOMAIN mealPlans : mealPlans'[p] = mealPlans[p]
                /\ recipes' = recipes]_vars

(* C21 witness: createMealPlan was refused after a logout, in a store that  *)
(* holds a plan and a recipe created while a user was logged in             *)
C21_Witness ==
    /\ call.op = "createMealPlan"
    /\ call.ret = "Error: Must be logged in"
    /\ currentUserId = ""
    /\ \E p \in DOMAIN mealPlans : hasUser(users, mealPlans[p].userId)
    /\ Cardinality(DOMAIN recipes) > 3

====
